---------------------------- MODULE Spec2Model ----------------------------
(***************************************************************************)
(* Model of TOFL_LAB4/main.py: the pipeline                                *)
(*   input line -> Lexer.tokenize -> Parser.parse -> CFGBuilder.build      *)
(* A text is a sequence of one-character strings.  A nonterminal name is   *)
(* the sequence of its characters, so that the f-string formatting of the  *)
(* names ("G" + id, prefix + counter) is computed and not assumed.         *)
(***************************************************************************)
EXTENDS Integers, Sequences, FiniteSets, TLC

VARIABLES
    line,           \* the raw line main() reads
    text,           \* Lexer.text (the stripped line)
    tokens,         \* the list Lexer.tokenize returns
    pc,             \* position of main(): read, lex, parse, build, main, loop, done, error, crash
    raised,         \* where the exception that ended the run was raised ("" = none)
    ast,            \* the tree Parser.parse returned
    groups_ast,     \* Parser.groups_ast / CFGBuilder.groups_ast, in insertion order
    group_nonterm,  \* CFGBuilder.group_nonterm
    noncap_index,   \* CFGBuilder.noncap_index
    star_index,     \* CFGBuilder.star_index
    rules,          \* the production mapping of CFGBuilder.build
    stack,          \* the active node_to_cfg calls, innermost last
    ret,            \* the value the last finished node_to_cfg call returned
    todo,           \* the items of groups_ast the loop of build has still to visit
    expanded,       \* how often a back-reference expanded the stored subtree of each id
    issued          \* the names fresh_nt returned so far, in call order

vars == <<line, text, tokens, pc, raised, ast, groups_ast, group_nonterm,
          noncap_index, star_index, rules, stack, ret, todo, expanded, issued>>

---------------------------------------------------------------------------
(* Bounds of the model.                                                    *)

\* longest raw line made of arbitrary lexemes
MaxLen == 3
\* largest number of syntax nodes of a generated well-formed pattern
MaxNodes == 5
\* largest number of capturing groups of a generated group pattern
MaxGroupsTried == 10
\* deepest node_to_cfg recursion the interpreter allows
StackLimit == 40
\* longest sequence of bare fresh_nt calls
MaxCalls == 5

---------------------------------------------------------------------------
(* Characters.                                                             *)

Lower == {"a", "b"}

Digits == <<"0", "1", "2", "3", "4", "5", "6", "7", "8", "9">>

IsDigit(c) == \E i \in 1..Len(Digits) : Digits[i] = c

DigitVal(c) == (CHOOSE i \in 1..Len(Digits) : Digits[i] = c) - 1

RECURSIVE ToDigits(_)
\* str(n) for n >= 0, as the f-strings of the builder format a number
ToDigits(n) ==
    IF n < 10 THEN <<Digits[n + 1]>>
    ELSE ToDigits(n \div 10) \o <<Digits[(n % 10) + 1]>>

RECURSIVE LStrip(_)
LStrip(s) == IF s # <<>> /\ Head(s) = " " THEN LStrip(Tail(s)) ELSE s

RECURSIVE RStrip(_)
RStrip(s) ==
    IF s # <<>> /\ s[Len(s)] = " " THEN RStrip(SubSeq(s, 1, Len(s) - 1)) ELSE s

\* str.strip()
Strip(s) == RStrip(LStrip(s))

---------------------------------------------------------------------------
(* Lexer.                                                                  *)

Token(ttype, value) == [ttype |-> ttype, value |-> value, ch |-> ""]

CharToken(c) == [ttype |-> "CHAR", value |-> 0, ch |-> c]

\* Lexer.peek at position p (1-based); "" stands for None
Peek(s, p) == IF p <= Len(s) THEN s[p] ELSE ""

RECURSIVE TokenizeFrom(_, _, _)
\* Lexer.tokenize: the loop from position p with the tokens acc so far;
\* the result is [err, toks]
TokenizeFrom(s, p, acc) ==
    IF p > Len(s) THEN [err |-> "", toks |-> acc]
    ELSE LET char == s[p] IN
      IF char = "(" THEN
        IF Peek(s, p + 1) = "?" THEN
          LET c2 == Peek(s, p + 2) IN
          IF c2 = ":" THEN TokenizeFrom(s, p + 3, Append(acc, Token("NONCAP_OPEN", 0)))
          ELSE IF c2 = "=" THEN TokenizeFrom(s, p + 3, Append(acc, Token("LOOKAHEAD_OPEN", 0)))
          ELSE IF c2 # "" /\ IsDigit(c2)
               THEN TokenizeFrom(s, p + 3, Append(acc, Token("EXPR_REF_OPEN", DigitVal(c2))))
          ELSE [err |-> "RegexParserError", toks |-> <<>>]
        ELSE TokenizeFrom(s, p + 1, Append(acc, Token("CAP_OPEN", 0)))
      ELSE IF char = ")" THEN TokenizeFrom(s, p + 1, Append(acc, Token("CLOSE", 0)))
      ELSE IF char = "|" THEN TokenizeFrom(s, p + 1, Append(acc, Token("ALT", 0)))
      ELSE IF char = "*" THEN TokenizeFrom(s, p + 1, Append(acc, Token("STAR", 0)))
      ELSE IF char \in Lower THEN TokenizeFrom(s, p + 1, Append(acc, CharToken(char)))
      ELSE [err |-> "RegexParserError", toks |-> <<>>]

Tokenize(s) == TokenizeFrom(s, 1, <<>>)

---------------------------------------------------------------------------
(* Syntax tree nodes.                                                      *)

GroupNode(group_id, node) == [type |-> "Group", id |-> group_id, ch |-> "", kids |-> <<node>>]

NonCapGroupNode(node) == [type |-> "NonCap", id |-> 0, ch |-> "", kids |-> <<node>>]

LookaheadNode(node) == [type |-> "Lookahead", id |-> 0, ch |-> "", kids |-> <<node>>]

ConcatNode(nodes) == [type |-> "Concat", id |-> 0, ch |-> "", kids |-> nodes]

AltNode(branches) == [type |-> "Alt", id |-> 0, ch |-> "", kids |-> branches]

StarNode(node) == [type |-> "Star", id |-> 0, ch |-> "", kids |-> <<node>>]

CharNode(c) == [type |-> "Char", id |-> 0, ch |-> c, kids |-> <<>>]

ExprRefNode(ref_id) == [type |-> "ExprRef", id |-> ref_id, ch |-> "", kids |-> <<>>]

\* no tree (None)
NoNode == [type |-> "None", id |-> 0, ch |-> "", kids |-> <<>>]

---------------------------------------------------------------------------
(* Parser: recursive descent.  The parser's fields pos, group_count and    *)
(* groups_ast travel in the record st; in_lookahead is the argument inla   *)
(* (the code restores it after the body of a lookahead).  Every parse      *)
(* function returns [err, node, st]; err # "" is a raised exception.       *)

\* Parser.__init__
ParserInit == [pos |-> 1, group_count |-> 0, groups_ast |-> <<>>]

ParseFail(st) == [err |-> "RegexParserError", node |-> NoNode, st |-> st]

ParseOk(node, st) == [err |-> "", node |-> node, st |-> st]

\* Parser.current_token is None
AtEnd(toks, st) == st.pos > Len(toks)

\* Parser.current_token().ttype ("" for None)
CurType(toks, st) == IF AtEnd(toks, st) THEN "" ELSE toks[st.pos].ttype

\* Parser.read(ttype) raises
ReadFails(toks, st, ttype) == AtEnd(toks, st) \/ toks[st.pos].ttype # ttype

\* Parser.read: the parser after a successful read
Advance(st) == [st EXCEPT !.pos = @ + 1]

\* the test of parse_base with the limit off by one
TooManyGroups_OffByOne(count) == count > 10

\* the test "self.group_count > 9" of parse_base
TooManyGroups(count) == count > 9

\* the guard of the loop of parse_concatenation
ConcatContinues(toks, st) == ~AtEnd(toks, st) /\ CurType(toks, st) \notin {"CLOSE", "ALT"}

\* the test of parse_alternation after reading '|'
EmptyBranchAhead(toks, st) == AtEnd(toks, st) \/ CurType(toks, st) \in {"CLOSE", "ALT"}

RECURSIVE ParseAlternation(_, _, _)
RECURSIVE AlternationLoop(_, _, _, _)
RECURSIVE ConcatenationLoop(_, _, _, _)
RECURSIVE RepetitionLoop(_, _, _)
RECURSIVE ParseBase(_, _, _)

\* Parser.parse_repetition: the loop wrapping node in stars
RepetitionLoop(toks, st, node) ==
    IF CurType(toks, st) = "STAR"
    THEN RepetitionLoop(toks, Advance(st), StarNode(node))
    ELSE ParseOk(node, st)

\* parse_repetition after "node = self.parse_base()" gave b
AfterBase(toks, b) == IF b.err # "" THEN b ELSE RepetitionLoop(toks, b.st, b.node)

ParseRepetition(toks, st, inla) == AfterBase(toks, ParseBase(toks, st, inla))

\* parse_concatenation after "nodes.append(self.parse_repetition())" gave r
AfterRepetition(toks, inla, nodes, r) ==
    IF r.err # "" THEN r ELSE ConcatenationLoop(toks, r.st, inla, Append(nodes, r.node))

\* Parser.parse_concatenation: the loop with the nodes collected so far
ConcatenationLoop(toks, st, inla, nodes) ==
    IF ConcatContinues(toks, st)
    THEN AfterRepetition(toks, inla, nodes, ParseRepetition(toks, st, inla))
    ELSE IF Len(nodes) = 1 THEN ParseOk(nodes[1], st)
    ELSE ParseOk(ConcatNode(nodes), st)

ParseConcatenation(toks, st, inla) == ConcatenationLoop(toks, st, inla, <<>>)

\* parse_alternation after a parse_concatenation gave c: the branch is appended
\* and the loop goes on
AfterBranch(toks, inla, branches, c) ==
    IF c.err # "" THEN c ELSE AlternationLoop(toks, c.st, inla, Append(branches, c.node))

\* the concatenation that follows a '|', unless the branch is empty
BranchAfterBar(toks, st, inla) ==
    IF EmptyBranchAhead(toks, st) THEN ParseFail(st) ELSE ParseConcatenation(toks, st, inla)

\* Parser.parse_alternation: the loop with the branches collected so far
AlternationLoop(toks, st, inla, branches) ==
    IF CurType(toks, st) = "ALT"
    THEN AfterBranch(toks, inla, branches, BranchAfterBar(toks, Advance(st), inla))
    ELSE IF Len(branches) = 1 THEN ParseOk(branches[1], st)
    ELSE ParseOk(AltNode(branches), st)

\* parse_alternation after its first parse_concatenation gave c
AfterFirstBranch(toks, inla, c) ==
    IF c.err # "" THEN c ELSE AlternationLoop(toks, c.st, inla, <<c.node>>)

ParseAlternation(toks, st, inla) ==
    AfterFirstBranch(toks, inla, ParseConcatenation(toks, st, inla))

\* "self.read('CLOSE')" after the body of a bracket gave a
ReadClose(toks, a) ==
    IF a.err # "" THEN a
    ELSE IF ReadFails(toks, a.st, "CLOSE") THEN ParseFail(a.st)
    ELSE ParseOk(a.node, Advance(a.st))

\* the end of the three bracket branches of parse_base, b being the body read up
\* to its ')': the node returned, and groups_ast[group_id] = node for a group
CloseBracket(ttype, group_id, b) ==
    IF b.err # "" THEN b
    ELSE IF ttype = "CAP_OPEN"
    THEN ParseOk(GroupNode(group_id, b.node),
                 [b.st EXCEPT !.groups_ast = Append(@, [id |-> group_id, node |-> b.node])])
    ELSE IF ttype = "NONCAP_OPEN" THEN ParseOk(NonCapGroupNode(b.node), b.st)
    ELSE ParseOk(LookaheadNode(b.node), b.st)

\* the bracket branches of parse_base: CAP_OPEN counts the group and stops at the
\* tenth, LOOKAHEAD_OPEN stops inside a lookahead and sets in_lookahead
ParseBracket(toks, st, inla, ttype) ==
    LET group_id == st.group_count + 1
        st1 == IF ttype = "CAP_OPEN" THEN [Advance(st) EXCEPT !.group_count = group_id]
               ELSE Advance(st)
    IN IF ttype = "CAP_OPEN" /\ TooManyGroups(group_id) THEN ParseFail(st1)
       ELSE IF ttype = "LOOKAHEAD_OPEN" /\ inla THEN ParseFail(st)
       ELSE CloseBracket(ttype, group_id,
                ReadClose(toks, ParseAlternation(toks, st1, inla \/ ttype = "LOOKAHEAD_OPEN")))

ParseBase(toks, st, inla) ==
    IF AtEnd(toks, st) THEN ParseFail(st)
    ELSE IF CurType(toks, st) \in {"CAP_OPEN", "NONCAP_OPEN", "LOOKAHEAD_OPEN"}
    THEN ParseBracket(toks, st, inla, CurType(toks, st))
    ELSE IF CurType(toks, st) = "EXPR_REF_OPEN"
    THEN (IF ReadFails(toks, Advance(st), "CLOSE") THEN ParseFail(st)
          ELSE ParseOk(ExprRefNode(toks[st.pos].value), Advance(Advance(st))))
    ELSE IF CurType(toks, st) = "CHAR"
    THEN ParseOk(CharNode(toks[st.pos].ch), Advance(st))
    ELSE ParseFail(st)

\* parse after "node = self.parse_alternation()" gave a: trailing tokens are an error
AfterTop(toks, a) ==
    IF a.err # "" THEN a ELSE IF ~AtEnd(toks, a.st) THEN ParseFail(a.st) ELSE a

\* the first two statements of Parser.parse: the tree, or the syntax error
ParseStructure(toks) == AfterTop(toks, ParseAlternation(toks, ParserInit, FALSE))

---------------------------------------------------------------------------
(* Validation of the finished tree.  A check returns the exception it      *)
(* raises first, in the order of the code's traversal ("" = none).         *)

RECURSIVE CollectAllGroups(_)
RECURSIVE CollectList(_, _)

\* the loops of collect_all_groups over children i.. of a Concat or Alt
CollectList(nodes, i) ==
    IF i > Len(nodes) THEN {}
    ELSE CollectAllGroups(nodes[i]) \cup CollectList(nodes, i + 1)

\* Parser.collect_all_groups(node, set())
CollectAllGroups(node) ==
    CASE node.type = "Group" -> {node.id} \cup CollectAllGroups(node.kids[1])
      [] node.type \in {"NonCap", "Lookahead", "Star"} -> CollectAllGroups(node.kids[1])
      [] node.type \in {"Concat", "Alt"} -> CollectList(node.kids, 1)
      [] OTHER -> {}

\* "children = node.nodes if hasattr(node, 'nodes') else [node.node]":
\* only ConcatNode has .nodes; AltNode has neither .nodes nor .node
ChildrenOrError(node) ==
    IF node.type = "Concat" THEN [err |-> "", kids |-> node.kids]
    ELSE IF node.type = "Alt" THEN [err |-> "AttributeError", kids |-> <<>>]
    ELSE [err |-> "", kids |-> node.kids]

RECURSIVE CheckNoCapAndLookahead(_, _)
RECURSIVE CheckNoCapList(_, _, _)

CheckNoCapList(nodes, i, inside_lookahead) ==
    IF i > Len(nodes) THEN ""
    ELSE LET e == CheckNoCapAndLookahead(nodes[i], inside_lookahead) IN
         IF e # "" THEN e ELSE CheckNoCapList(nodes, i + 1, inside_lookahead)

\* Parser.check_no_cap_and_lookahead
CheckNoCapAndLookahead(node, inside_lookahead) ==
    IF node.type = "Group" /\ inside_lookahead THEN "RegexParserError"
    ELSE IF node.type = "Lookahead" /\ inside_lookahead THEN "RegexParserError"
    ELSE IF node.type \in {"NonCap", "Lookahead", "Star", "Concat", "Alt"}
    THEN LET c == ChildrenOrError(node) IN
         IF c.err # "" THEN c.err ELSE CheckNoCapList(c.kids, 1, inside_lookahead)
    ELSE ""

\* "node.ref_id not in all_groups" of check_references
UndefinedRef(ref_id, all_groups) == ref_id \notin all_groups

RECURSIVE CheckReferences(_, _)
RECURSIVE CheckReferencesList(_, _, _)

CheckReferencesList(nodes, i, all_groups) ==
    IF i > Len(nodes) THEN ""
    ELSE LET e == CheckReferences(nodes[i], all_groups) IN
         IF e # "" THEN e ELSE CheckReferencesList(nodes, i + 1, all_groups)

\* Parser.check_references
CheckReferences(node, all_groups) ==
    CASE node.type = "ExprRef" ->
           IF UndefinedRef(node.id, all_groups) THEN "RegexParserError" ELSE ""
      [] node.type \in {"Group", "NonCap", "Star"} ->
           CheckReferences(node.kids[1], all_groups)
      [] node.type = "Lookahead" ->
           LET e == CheckNoCapAndLookahead(node.kids[1], TRUE) IN
           IF e # "" THEN e ELSE CheckReferences(node.kids[1], all_groups)
      [] node.type \in {"Concat", "Alt"} -> CheckReferencesList(node.kids, 1, all_groups)
      [] node.type = "Char" -> ""
      [] OTHER -> "RegexParserError"

\* the exception check_references raises on the tree of a ("" = none)
Validate(a) == CheckReferences(a.node, CollectAllGroups(a.node))

\* parse after the tree a is built: [err, node, groups_ast]
AfterStructure(a, e) ==
    IF a.err # "" THEN [err |-> a.err, node |-> NoNode, groups_ast |-> <<>>]
    ELSE IF e # "" THEN [err |-> e, node |-> NoNode, groups_ast |-> <<>>]
    ELSE [err |-> "", node |-> a.node, groups_ast |-> a.st.groups_ast]

\* the result of validating a, when a is a tree
ValidateIfBuilt(a) == IF a.err # "" THEN "" ELSE Validate(a)

\* the outcome of parse for the structure a
Verdict(a) == AfterStructure(a, ValidateIfBuilt(a))

\* Parser.parse
ParserParse(toks) == Verdict(ParseStructure(toks))

---------------------------------------------------------------------------
(* CFGBuilder.                                                             *)

\* the start symbol 'S' of build
StartSymbol == <<"S">>

\* f"G{group_id}"
GroupName(group_id) == <<"G">> \o ToDigits(group_id)

\* the prefix node_to_cfg passes to fresh_nt for a node of each type
PrefixOf(type) ==
    CASE type = "Char" -> <<"C", "H", "A", "R">>
      [] type = "NonCap" -> <<"N">>
      [] type = "Lookahead" -> <<"L", "A">>
      [] type = "Concat" -> <<"C">>
      [] type = "Alt" -> <<"A">>
      [] type = "Star" -> <<"R">>
      [] OTHER -> <<>>

Prefixes == {PrefixOf(t) : t \in {"Char", "NonCap", "Lookahead", "Concat", "Alt", "Star"}}

\* fresh_nt whose last branch forgets "self.noncap_index += 1"
FreshNt_NoStep(prefix, noncap, star) ==
    IF prefix = <<"N">>
    THEN [name |-> prefix \o ToDigits(noncap), noncap_index |-> noncap + 1, star_index |-> star]
    ELSE IF prefix = <<"R">>
    THEN [name |-> prefix \o ToDigits(star), noncap_index |-> noncap, star_index |-> star + 1]
    ELSE [name |-> prefix \o ToDigits(noncap + star), noncap_index |-> noncap,
          star_index |-> star]

\* CFGBuilder.fresh_nt: the name and the two counters after the call
FreshNt(prefix, noncap, star) ==
    IF prefix = <<"N">>
    THEN [name |-> prefix \o ToDigits(noncap), noncap_index |-> noncap + 1, star_index |-> star]
    ELSE IF prefix = <<"R">>
    THEN [name |-> prefix \o ToDigits(star), noncap_index |-> noncap, star_index |-> star + 1]
    ELSE [name |-> prefix \o ToDigits(noncap + star), noncap_index |-> noncap + 1,
          star_index |-> star]

\* rules.setdefault(nt, []).append(rhs)
AddProduction(r, nt, rhs) ==
    IF nt \in DOMAIN r THEN [r EXCEPT ![nt] = Append(@, rhs)] ELSE r @@ (nt :> <<rhs>>)

\* the keys of groups_ast
GroupIds(ga) == {ga[i].id : i \in 1..Len(ga)}

\* groups_ast[group_id]
GroupAst(ga, group_id) == ga[CHOOSE i \in 1..Len(ga) : ga[i].id = group_id].node

\* an empty dict
EmptyMap == [x \in {} |-> <<>>]

\* one activation of node_to_cfg(node, rules, start_symbol): ph is "call" before
\* its first statement and "ret" while a recursive call it made is running; nt, i
\* and acc are its locals nt, the index of the child being synthesized, seq_nts
Frame(node, start_symbol) ==
    [node |-> node, start_symbol |-> start_symbol, ph |-> "call", nt |-> <<>>,
     i |-> 0, acc |-> <<>>]

\* the GroupNode branch forgetting to record the name it made
GroupMemo_Forgotten(gn, group_id) == gn

\* "nt = self.group_nonterm.get(id); if nt is None: ... self.group_nonterm[id] = nt"
\* of the GroupNode branch: the memo after it
GroupMemo(gn, group_id) ==
    IF group_id \in DOMAIN gn THEN gn ELSE gn @@ (group_id :> GroupName(group_id))

\* the ExprRefNode branch recording the memo only after the expansion
MemoBeforeExpand_Late(gn, ref_id) == gn

\* "self.group_nonterm[ref_id] = f'G{ref_id}'" of the ExprRefNode branch, which
\* runs before the stored subtree is synthesized
MemoBeforeExpand(gn, ref_id) == gn @@ (ref_id :> GroupName(ref_id))

\* a LookaheadNode branch that returns its name without a production
LeafRules_NoLookaheadRule(r, node, nt) ==
    CASE node.type = "Char" -> AddProduction(r, nt, << <<node.ch>> >>)
      [] node.type = "Lookahead" -> r
      [] OTHER -> AddProduction(r, nt, <<>>)

\* the production a node without recursive calls adds to nt: CharNode, LookaheadNode
\* and a ConcatNode with no children
LeafRules(r, node, nt) ==
    CASE node.type = "Char" -> AddProduction(r, nt, << <<node.ch>> >>)
      [] node.type = "Lookahead" -> AddProduction(r, nt, <<>>)
      [] OTHER -> AddProduction(r, nt, <<>>)

\* the two productions of a StarNode
StarRules(r, nt, sub_nt) == AddProduction(AddProduction(r, nt, <<>>), nt, <<nt, sub_nt>>)

Top == stack[Len(stack)]

Pop == SubSeq(stack, 1, Len(stack) - 1)

\* the stack after the running activation, now waiting as w, calls node_to_cfg(node)
Descend(w, node) == Append(Append(Pop, w), Frame(node, <<>>))

---------------------------------------------------------------------------
(* Inputs.                                                                 *)

\* the pieces arbitrary lines are made of
Lexemes ==
    { <<"(">>, <<"(", "?", ":">>, <<"(", "?", "=">>, <<"(", "?", "1">>, <<"(", "?">>,
      <<")">>, <<"|">>, <<"*">>, <<"a">>, <<"?">>, <<" ">> }

RECURSIVE Flatten(_)
Flatten(ss) == IF ss = <<>> THEN <<>> ELSE Head(ss) \o Flatten(Tail(ss))

\* every line of at most MaxLen lexemes
LexemeLines == UNION { {Flatten(f) : f \in [1..n -> Lexemes]} : n \in 0..MaxLen }

Wrap(open, body) == open \o body \o <<")">>

\* the patterns with one syntax node (an empty sequence counts as a node)
LeafPatterns ==
    { <<>>, <<"a">>, <<"(", "?", "0", ")">>, <<"(", "?", "1", ")">>, <<"(", "?", "2", ")">> }

\* the patterns with n >= 2 syntax nodes, from t[k] = those with k < n nodes
LargerPatterns(t, n) ==
    { Wrap(<<"(">>, b) : b \in t[n - 1] }
    \cup { Wrap(<<"(", "?", ":">>, b) : b \in t[n - 1] }
    \cup { Wrap(<<"(", "?", "=">>, b) : b \in t[n - 1] }
    \cup { b \o <<"*">> : b \in t[n - 1] }
    \cup UNION { { l \o r : l \in t[k], r \in t[n - 1 - k] }
                 \cup { l \o <<"|">> \o r : l \in t[k], r \in t[n - 1 - k] }
                 : k \in 1..(n - 2) }

RECURSIVE PatternTable(_)
\* <<the well-formed patterns with exactly k syntax nodes : k = 1..n>>
PatternTable(n) ==
    IF n = 1 THEN <<LeafPatterns>>
    ELSE LET t == PatternTable(n - 1) IN Append(t, LargerPatterns(t, n))

PatternLines == LET t == PatternTable(MaxNodes) IN UNION { t[n] : n \in 1..MaxNodes }

RECURSIVE Nested(_)
\* k capturing groups inside each other around a letter
Nested(k) == IF k = 0 THEN <<"a">> ELSE Wrap(<<"(">>, Nested(k - 1))

RECURSIVE Flat(_)
\* m capturing groups side by side
Flat(m) == IF m = 0 THEN <<>> ELSE <<"(", "b", ")">> \o Flat(m - 1)

\* patterns with up to MaxGroupsTried capturing groups, nested or side by side
GroupLines ==
    { Nested(q[1]) \o Flat(q[2]) :
        q \in { p \in (0..MaxGroupsTried) \X (0..MaxGroupsTried) : p[1] + p[2] <= MaxGroupsTried } }

\* the lines main() may read
Lines == LexemeLines \cup PatternLines \cup GroupLines

---------------------------------------------------------------------------
(* The pipeline of main().                                                 *)

Init ==
    /\ line \in Lines
    /\ text = <<>>
    /\ tokens = <<>>
    /\ pc = "read"
    /\ raised = ""
    /\ ast = NoNode
    /\ groups_ast = <<>>
    /\ group_nonterm = EmptyMap
    /\ noncap_index = 1
    /\ star_index = 1
    /\ rules = EmptyMap
    /\ stack = <<>>
    /\ ret = <<>>
    /\ todo = <<>>
    /\ expanded = [id \in 0..9 |-> 0]
    /\ issued = <<>>

\* text = input().strip(); if text == "": raise RegexParserError()
ReadLine ==
    /\ pc = "read"
    /\ text' = Strip(line)
    /\ IF text' = <<>>
       THEN pc' = "error" /\ raised' = "main"
       ELSE pc' = "lex" /\ raised' = raised
    /\ UNCHANGED <<line, tokens, ast, groups_ast, group_nonterm, noncap_index,
                   star_index, rules, stack, ret, todo, expanded, issued>>

\* tokens = Lexer(text).tokenize()
Lex ==
    /\ pc = "lex"
    /\ LET r == Tokenize(text) IN
       IF r.err # ""
       THEN pc' = "error" /\ raised' = "lex" /\ tokens' = tokens
       ELSE pc' = "parse" /\ raised' = raised /\ tokens' = r.toks
    /\ UNCHANGED <<line, text, ast, groups_ast, group_nonterm, noncap_index,
                   star_index, rules, stack, ret, todo, expanded, issued>>

\* ast = Parser(tokens).parse(); an AttributeError is not caught by main()
Parse ==
    /\ pc = "parse"
    /\ LET r == ParserParse(tokens) IN
       /\ pc' = IF r.err = "" THEN "build"
                ELSE IF r.err = "RegexParserError" THEN "error" ELSE "crash"
       /\ raised' = IF r.err = "" THEN raised ELSE "parse"
       /\ ast' = r.node
       /\ groups_ast' = r.groups_ast
    /\ UNCHANGED <<line, text, tokens, group_nonterm, noncap_index,
                   star_index, rules, stack, ret, todo, expanded, issued>>

\* builder = CFGBuilder(parser.groups_ast); build: rules = {}; the call
\* node_to_cfg(node, rules) begins
BuildStart ==
    /\ pc = "build"
    /\ pc' = "main"
    /\ group_nonterm' = EmptyMap
    /\ noncap_index' = 1
    /\ star_index' = 1
    /\ rules' = EmptyMap
    /\ stack' = <<Frame(ast, <<>>)>>
    /\ UNCHANGED <<line, text, tokens, raised, ast, groups_ast, ret, todo, expanded, issued>>

\* node_to_cfg up to its first recursive call, or to its return when it makes none
NodeToCfgCall ==
    /\ pc \in {"main", "loop"}
    /\ stack # <<>>
    /\ Top.ph = "call"
    /\ LET f == Top
           node == f.node
           t == node.type
           fresh == FreshNt(PrefixOf(t), noncap_index, star_index)
           named == t \notin {"Group", "ExprRef"}
           takesFresh == named /\ f.start_symbol = <<>>
           nt == IF t = "Group"
                 THEN (IF node.id \in DOMAIN group_nonterm
                       THEN group_nonterm[node.id] ELSE GroupName(node.id))
                 ELSE IF f.start_symbol # <<>> THEN f.start_symbol ELSE fresh.name
           leaf == t \in {"Char", "Lookahead"} \/ (t = "Concat" /\ node.kids = <<>>)
           known == t = "ExprRef" /\ node.id \in DOMAIN group_nonterm
           missing == t = "ExprRef" /\ ~known /\ node.id \notin GroupIds(groups_ast)
           child == IF t = "ExprRef" THEN GroupAst(groups_ast, node.id) ELSE node.kids[1]
           overflow == ~leaf /\ ~known /\ ~missing /\ Len(stack) >= StackLimit
       IN
       /\ noncap_index' = IF takesFresh THEN fresh.noncap_index ELSE noncap_index
       /\ star_index' = IF takesFresh THEN fresh.star_index ELSE star_index
       /\ issued' = IF takesFresh THEN Append(issued, fresh.name) ELSE issued
       /\ group_nonterm' =
            IF t = "Group" THEN GroupMemo(group_nonterm, node.id)
            ELSE IF t = "ExprRef" /\ ~known THEN MemoBeforeExpand(group_nonterm, node.id)
            ELSE group_nonterm
       /\ rules' = IF leaf THEN LeafRules(rules, node, nt) ELSE rules
       /\ ret' = IF leaf THEN nt ELSE IF known THEN group_nonterm[node.id] ELSE ret
       /\ pc' = IF missing THEN "error" ELSE IF overflow THEN "crash" ELSE pc
       /\ raised' = IF missing \/ overflow THEN "build" ELSE raised
       /\ expanded' = IF t = "ExprRef" /\ ~known /\ ~missing /\ ~overflow
                      THEN [expanded EXCEPT ![node.id] = @ + 1] ELSE expanded
       /\ stack' = IF leaf \/ known THEN Pop
                   ELSE IF missing \/ overflow THEN stack
                   ELSE Descend([f EXCEPT !.ph = "ret", !.nt = nt, !.i = 1], child)
    /\ UNCHANGED <<line, text, tokens, ast, groups_ast, todo>>

\* node_to_cfg from the return of a recursive call to its next one, or to its return
NodeToCfgReturn ==
    /\ pc \in {"main", "loop"}
    /\ stack # <<>>
    /\ Top.ph = "ret"
    /\ LET f == Top
           node == f.node
           t == node.type
           more == t \in {"Concat", "Alt"} /\ f.i < Len(node.kids)
           acc == Append(f.acc, ret)
           keyError == t = "ExprRef" /\ node.id \notin DOMAIN group_nonterm
           nt == IF t = "ExprRef" /\ ~keyError THEN group_nonterm[node.id] ELSE f.nt
           overflow == more /\ Len(stack) >= StackLimit
       IN
       /\ rules' =
            CASE keyError -> rules
              [] t = "Star" -> StarRules(rules, nt, ret)
              [] t = "Concat" -> IF more THEN rules ELSE AddProduction(rules, nt, acc)
              [] OTHER -> AddProduction(rules, nt, <<ret>>)
       /\ pc' = IF keyError \/ overflow THEN "crash" ELSE pc
       /\ raised' = IF keyError \/ overflow THEN "build" ELSE raised
       /\ ret' = IF more \/ keyError THEN ret ELSE nt
       /\ stack' = IF keyError \/ overflow THEN stack
                   ELSE IF more
                   THEN Descend([f EXCEPT !.i = @ + 1, !.acc = acc], node.kids[f.i + 1])
                   ELSE Pop
    /\ UNCHANGED <<line, text, tokens, ast, groups_ast, group_nonterm, noncap_index,
                   star_index, todo, expanded, issued>>

\* main_nt is back: rules[start] = [[main_nt]]; the loop over groups_ast.items() starts
BuildSetStart ==
    /\ pc = "main"
    /\ stack = <<>>
    /\ rules' = [x \in DOMAIN rules \cup {StartSymbol} |->
                    IF x = StartSymbol THEN <<<<ret>>>> ELSE rules[x]]
    /\ todo' = groups_ast
    /\ pc' = "loop"
    /\ UNCHANGED <<line, text, tokens, raised, ast, groups_ast, group_nonterm,
                   noncap_index, star_index, stack, ret, expanded, issued>>

\* one iteration of "for group_id, ast in self.groups_ast.items()"
BuildLoop ==
    /\ pc = "loop"
    /\ stack = <<>>
    /\ todo # <<>>
    /\ LET item == Head(todo)
           nt == GroupName(item.id)
       IN IF item.id \notin DOMAIN group_nonterm
          THEN /\ group_nonterm' = group_nonterm @@ (item.id :> nt)
               /\ stack' = <<Frame(item.node, nt)>>
          ELSE UNCHANGED <<group_nonterm, stack>>
    /\ todo' = Tail(todo)
    /\ UNCHANGED <<line, text, tokens, pc, raised, ast, groups_ast, noncap_index,
                   star_index, rules, ret, expanded, issued>>

\* "return start, rules", and main() prints the grammar
BuildReturn ==
    /\ pc = "loop"
    /\ stack = <<>>
    /\ todo = <<>>
    /\ pc' = "done"
    /\ UNCHANGED <<line, text, tokens, raised, ast, groups_ast, group_nonterm,
                   noncap_index, star_index, rules, stack, ret, todo, expanded, issued>>


\* the steps of CFGBuilder.build
Build ==
    \/ BuildStart
    \/ NodeToCfgCall
    \/ NodeToCfgReturn
    \/ BuildSetStart
    \/ BuildLoop
    \/ BuildReturn

Next ==
    \/ ReadLine
    \/ Lex
    \/ Parse
    \/ Build

Spec == Init /\ [][Next]_vars

\* build is one synchronous call: the interpreter keeps executing it, so a step
\* of build that can be taken is not put off for ever
FairSpec == Spec /\ WF_vars(Build)

---------------------------------------------------------------------------
(* A builder on which fresh_nt is called directly, with any prefixes in    *)
(* any order.                                                              *)

\* CFGBuilder.__init__ with nothing built yet
InitFresh ==
    /\ line = <<>>
    /\ text = <<>>
    /\ tokens = <<>>
    /\ pc = "fresh"
    /\ raised = ""
    /\ ast = NoNode
    /\ groups_ast = <<>>
    /\ group_nonterm = EmptyMap
    /\ noncap_index = 1
    /\ star_index = 1
    /\ rules = EmptyMap
    /\ stack = <<>>
    /\ ret = <<>>
    /\ todo = <<>>
    /\ expanded = [id \in 0..9 |-> 0]
    /\ issued = <<>>

\* one call self.fresh_nt(prefix)
FreshCall ==
    /\ pc = "fresh"
    /\ Len(issued) < MaxCalls
    /\ \E prefix \in Prefixes :
         LET r == FreshNt(prefix, noncap_index, star_index) IN
         /\ noncap_index' = r.noncap_index
         /\ star_index' = r.star_index
         /\ issued' = Append(issued, r.name)
         /\ ret' = r.name
    /\ UNCHANGED <<line, text, tokens, pc, raised, ast, groups_ast, group_nonterm,
                   rules, stack, todo, expanded>>

NextFresh ==
    \/ Next
    \/ FreshCall

\* the pipeline, and beside it the bare sequences of fresh_nt calls
FreshSpec == (Init \/ InitFresh) /\ [][NextFresh]_vars

---------------------------------------------------------------------------
(* Vocabulary of the properties.                                           *)

\* Parser.parse has run (it returned or raised)
Parsed == pc \in {"build", "main", "loop", "done"} \/ raised \in {"parse", "build"}

\* Parser.parse returned a tree
Accepted == pc \in {"build", "main", "loop", "done"} \/ raised = "build"

\* parse raised RegexParserError: main() reports the validation error
Rejected == pc = "error" /\ raised = "parse"

\* the number of '(' tokens that open a capturing group
NumCapOpen(toks) == Cardinality({i \in 1..Len(toks) : toks[i].ttype = "CAP_OPEN"})

\* the ids the back-references (?N) of the pattern name
RefValues(toks) == {toks[i].value : i \in {j \in 1..Len(toks) : toks[j].ttype = "EXPR_REF_OPEN"}}

\* some '|' of the pattern has an empty branch on its left or on its right
HasEmptyAlternative(toks) ==
    \E i \in 1..Len(toks) :
        /\ toks[i].ttype = "ALT"
        /\ \/ i = 1
           \/ i = Len(toks)
           \/ toks[i - 1].ttype \in {"CAP_OPEN", "NONCAP_OPEN", "LOOKAHEAD_OPEN", "ALT"}
           \/ toks[i + 1].ttype \in {"CLOSE", "ALT"}

RECURSIVE HasKind(_, _)
\* a node whose type is in kinds occurs in the tree
HasKind(node, kinds) ==
    node.type \in kinds \/ \E i \in 1..Len(node.kids) : HasKind(node.kids[i], kinds)

RECURSIVE NestsInLookahead(_)
\* a capturing group or a lookahead occurs beneath a lookahead of the tree
NestsInLookahead(node) ==
    \/ node.type = "Lookahead" /\ HasKind(node.kids[1], {"Group", "Lookahead"})
    \/ \E i \in 1..Len(node.kids) : NestsInLookahead(node.kids[i])

RECURSIVE LookaheadCheckFails(_)
\* check_no_cap_and_lookahead raises on the body of some lookahead of the tree
LookaheadCheckFails(node) ==
    \/ node.type = "Lookahead" /\ CheckNoCapAndLookahead(node.kids[1], TRUE) # ""
    \/ \E i \in 1..Len(node.kids) : LookaheadCheckFails(node.kids[i])

RECURSIVE PreorderIds(_)
RECURSIVE PreorderIdsList(_, _)
PreorderIdsList(nodes, i) ==
    IF i > Len(nodes) THEN <<>> ELSE PreorderIds(nodes[i]) \o PreorderIdsList(nodes, i + 1)

\* the ids of the groups of the tree, an outer group before the groups inside it,
\* from left to right
PreorderIds(node) ==
    (IF node.type = "Group" THEN <<node.id>> ELSE <<>>) \o PreorderIdsList(node.kids, 1)

\* the elements of a sequence
Range(seq) == {seq[i] : i \in 1..Len(seq)}

\* a terminal of the grammar: one lowercase letter
IsTerminal(sym) == Len(sym) = 1 /\ sym[1] \in Lower

\* the nonterminals on the right-hand sides of the productions of nt
RhsNonterminals(nt) ==
    IF nt \notin DOMAIN rules THEN {}
    ELSE { sym \in UNION { Range(rules[nt][p]) : p \in 1..Len(rules[nt]) } : ~IsTerminal(sym) }

RECURSIVE ReachableFrom(_)
\* the nonterminals reachable from those of the set nts
ReachableFrom(nts) ==
    IF UNION {RhsNonterminals(nt) : nt \in nts} \subseteq nts THEN nts
    ELSE ReachableFrom(nts \cup UNION {RhsNonterminals(nt) : nt \in nts})

\* the name is G followed by digits
IsGroupName(name) ==
    /\ Len(name) >= 2
    /\ name[1] = "G"
    /\ \A k \in 2..Len(name) : IsDigit(name[k])

---------------------------------------------------------------------------
(* Properties.                                                             *)

\* C1: on every pattern that parses structurally, a back-reference to an id that
\* no capturing group of the pattern has (the groups are numbered 1..number of
\* '(' tokens, wherever they stand) makes main() report the validation error,
\* and when every back-reference names a group the references do not make
\* parse fail: it fails only if the lookahead check does.
C1_BackRefValidation ==
    (Parsed /\ ParseStructure(tokens).err = "") =>
        /\ ~(RefValues(tokens) \subseteq 1..NumCapOpen(tokens)) => Rejected
        /\ (RefValues(tokens) \subseteq 1..NumCapOpen(tokens) /\ ~Accepted)
              => LookaheadCheckFails(ParseStructure(tokens).node)

\* C2: every pattern in which a capturing group or a lookahead lies beneath a
\* lookahead is rejected with the validation error.
C2_NestingRejected ==
    (Parsed /\ ParseStructure(tokens).err = ""
            /\ NestsInLookahead(ParseStructure(tokens).node)) => Rejected

\* C3: every pattern with an empty alternative branch is rejected with the
\* validation error.
C3_EmptyAlternativeRejected ==
    (Parsed /\ HasEmptyAlternative(tokens)) => Rejected

\* C4: when build returns, the nonterminal G<id> of every capturing group has
\* exactly one production.
C4_OneProductionPerGroup ==
    pc = "done" =>
        \A id \in GroupIds(groups_ast) :
            /\ GroupName(id) \in DOMAIN rules
            /\ Len(rules[GroupName(id)]) = 1

\* C5: a pattern that parses structurally, names only existing groups in its
\* back-references and has lookaheads with no capturing group and no lookahead
\* in their bodies is accepted, whatever the shape of those bodies, and in the
\* grammar every lookahead nonterminal LA<n> has the empty production alone.
C5_LookaheadAccepted ==
    /\ (Parsed /\ ParseStructure(tokens).err = ""
               /\ HasKind(ParseStructure(tokens).node, {"Lookahead"})
               /\ ~NestsInLookahead(ParseStructure(tokens).node)
               /\ RefValues(tokens) \subseteq 1..NumCapOpen(tokens)) => Accepted
    /\ pc = "done" =>
          \A nt \in DOMAIN rules :
              (Len(nt) >= 3 /\ nt[1] = "L" /\ nt[2] = "A") => rules[nt] = << <<>> >>

\* C6: in the grammar build returns, every nonterminal on the right-hand side of
\* a production reachable from S is a key of the mapping with at least one
\* production.
C6_ReachableDefined ==
    pc = "done" =>
        \A nt \in ReachableFrom({StartSymbol}) :
            /\ nt \in DOMAIN rules
            /\ Len(rules[nt]) >= 1

\* a grammar is returned in which a group's nonterminal derives itself: the
\* back-reference returned G<id> while the group was being synthesized
C6_Witness ==
    /\ pc = "done"
    /\ \E id \in GroupIds(groups_ast) : <<GroupName(id)>> \in Range(rules[GroupName(id)])

\* C7: the memo entry of an id is recorded before a back-reference expands the
\* stored subtree of that id, no id is expanded twice, and a build that starts
\* returns.
C7_SynthesisTerminates ==
    /\ [](\A id \in 0..9 : expanded[id] <= 1)
    /\ [](\A i \in 1..Len(stack) :
             (stack[i].node.type = "ExprRef" /\ stack[i].ph = "ret")
                 => stack[i].node.id \in DOMAIN group_nonterm)
    /\ (pc = "build") ~> (pc = "done")

\* a back-reference meets the id whose stored subtree a back-reference is
\* expanding at that moment
C7_Witness ==
    /\ pc = "main"
    /\ Len(stack) >= 2
    /\ Top.ph = "call"
    /\ Top.node.type = "ExprRef"
    /\ \E i \in 1..(Len(stack) - 1) :
          /\ stack[i].node.type = "ExprRef"
          /\ stack[i].ph = "ret"
          /\ stack[i].node.id = Top.node.id

\* C8: no two fresh_nt calls of one builder return the same name, no fresh name
\* is S or a G<id>, and in a returned grammar the nonterminals other than S and
\* the G<id> are exactly the names fresh_nt returned, one call each.
C8_FreshNamesDistinct ==
    /\ Cardinality(Range(issued)) = Len(issued)
    /\ \A i \in 1..Len(issued) : issued[i] # StartSymbol /\ ~IsGroupName(issued[i])
    /\ pc = "done" =>
          {nt \in DOMAIN rules : nt # StartSymbol /\ ~IsGroupName(nt)} = Range(issued)

\* a name numbered with the sum of the two counters was returned after both
\* counters had moved
C8_Witness ==
    /\ noncap_index > 1
    /\ star_index > 1
    /\ Len(issued) >= 3
    /\ issued[Len(issued)][1] \in {"C", "A", "L"}

\* C9: after a successful parse the groups are numbered 1, 2, ... in the order
\* their '(' are met, the keys of groups_ast are exactly these numbers and there
\* are at most 9; a pattern with more than 9 '(' is rejected with the validation
\* error; a pattern made of at most 9 nested or adjacent groups is accepted.
C9_GroupIds ==
    /\ Accepted =>
          /\ NumCapOpen(tokens) <= 9
          /\ Len(groups_ast) = NumCapOpen(tokens)
          /\ GroupIds(groups_ast) = 1..NumCapOpen(tokens)
          /\ PreorderIds(ast) = [i \in 1..NumCapOpen(tokens) |-> i]
    /\ (Parsed /\ NumCapOpen(tokens) > 9) => Rejected
    /\ (Parsed /\ line \in GroupLines /\ NumCapOpen(tokens) <= 9) => Accepted

\* a pattern with exactly nine groups, some of them nested, is accepted
C9_Witness ==
    /\ pc = "done"
    /\ Len(groups_ast) = 9
    /\ \E i \in 1..Len(groups_ast) : groups_ast[i].node.type = "Group"

\* C10: once parse has returned a tree build never raises: every back-reference
\* met names a key of groups_ast, and when the main tree is synthesized every key
\* of groups_ast has its entry in group_nonterm, so that the loop at the end of
\* build synthesizes nothing.
C10_BuildNeverFails ==
    /\ raised # "build"
    /\ (stack # <<>> /\ Top.node.type = "ExprRef") => Top.node.id \in GroupIds(groups_ast)
    /\ pc = "loop" =>
          /\ GroupIds(groups_ast) \subseteq DOMAIN group_nonterm
          /\ stack = <<>>

\* the loop of build has passed over the groups of a pattern with a forward
\* reference
C10_Witness ==
    /\ pc = "loop"
    /\ todo = <<>>
    /\ Len(groups_ast) >= 2
    /\ \E id \in GroupIds(groups_ast) : expanded[id] = 1

=============================================================================
